---- MODULE Spec2Model ----
(***************************************************************************)
(* SledgeClient: the socket wrapper of sledge, in its two protocol shapes. *)
(*                                                                         *)
(*   variant "two"    : src/unnamed/part_001 (lines 170-321), the client   *)
(*                      with SynchronizeShared / SynchronizeAdmin and the  *)
(*                      connection status;                                 *)
(*   variant "single" : src/unnamed/part_002, the client with one          *)
(*                      Synchronize channel.                               *)
(*                                                                         *)
(* JavaScript runs one listener at a time.  A fan-out loop (for ... of)    *)
(* is modelled one subscriber call per step, because the subscriber is     *)
(* user code that may call back into the client; while a loop is running   *)
(* no other listener and no outside call is enabled.                       *)
(***************************************************************************)
EXTENDS Integers, Sequences, FiniteSets, TLC

\* ------------------------------------------------------------------ bounds
MaxSends == 2
MaxSubs == 3
\* sends and subscribes together, over the life of one client
MaxCalls == 3
\* calls back into the client made by the subscribers of one loop
MaxNested == 1
\* unsubscribe closures that are ever run (each any number of times)
MaxRun == 2
MaxTick == 1
MaxRand == 2

\* ------------------------------------------------------- program constants
HexRadix == 16
SliceLen == 6
ByteSpan == 256

\* callbacks user code hands to subscribe*, compared by identity
Callbacks == {"f", "g"}
\* bodies of response events and of broadcast events
Payloads == {"r1", "r2"}
Broadcasts == {"e1", "e2"}
\* the response kinds the server delivers in this model
Delivered == {"authenticateResponse", "genericResponse"}
\* the request kinds user code sends in this model
SendKinds == {"Authenticate", "RateHack"}

Connecting == "SLEDGECLIENT_CONNECTING"
Connected == "SLEDGECLIENT_CONNECTED"
Reconnecting == "SLEDGECLIENT_RECONNECTING"
Disconnected == "SLEDGECLIENT_DISCONNECTED"
\* the single-channel client has no status field
NoStatus == "undefined"

\* an array slot emptied by `delete arr[i]`: reads as undefined
Hole == "undefined"

VARIABLES
  variant,                \* which of the two clients this is
  now,                    \* the time Date.now() last returned
  status,                 \* this.status
  responseResolvers,      \* this.responseResolvers: returnId -> promise
  promises,               \* the promises sendAndAwait returned, by handle
  syncSharedSubs,         \* this.syncSharedSubs
  syncAdminSubs,          \* this.syncAdminSubs
  statusSubscribers,      \* this.statusSubscribers
  synchronizeSubscribers, \* this.synchronizeSubscribers
  unsubscribers,          \* the unsubscribe closures handed out so far
  fanout,                 \* the for...of loop in progress, if any
  notified,               \* the subscriber calls of the current loop
  last                    \* the last step: the call or listener that ran

vars == <<variant, now, status, responseResolvers, promises, syncSharedSubs,
          syncAdminSubs, statusSubscribers, synchronizeSubscribers,
          unsubscribers, fanout, notified, last>>

\* ------------------------------------------------------------ return ids

\* Number.prototype.toString(16) of a non-negative integer, as hex digits
RECURSIVE ToHex(_)
ToHex(n) ==
  IF n < HexRadix THEN <<n>> ELSE Append(ToHex(n \div HexRadix), n % HexRadix)

\* String.prototype.slice(-6)
SliceLast(s) ==
  IF Len(s) <= SliceLen THEN s ELSE SubSeq(s, Len(s) - SliceLen + 1, Len(s))

\* s left-padded with zeros to SliceLen digits
RECURSIVE PadHex(_)
PadHex(s) == IF Len(s) >= SliceLen THEN s ELSE PadHex(<<0>> \o s)

\* the radix point of "0.xxxx"
Dot == HexRadix

\* Math.random().toString(16): "0." and the hex digits of the fraction; the
\* draw r stands for a fraction whose digits are r written in SliceLen digits
RandomHex(r) == <<0, Dot>> \o PadHex(ToHex(r))

\* Date.now() & ~0xFF for a time below 2^31
ClearLowByte(t) == t - (t % ByteSpan)

\* the clock starts at a time of more than SliceLen hex digits
Epoch == HexRadix ^ SliceLen

\* the values Date.now() and Math.random() return in this model
Clock == Epoch..(Epoch + MaxTick)
Random == 0..(MaxRand - 1)

generateUniqueReturnId(v, t, r) ==
  IF v = "two"
  THEN SliceLast(ToHex(t)) \o SliceLast(RandomHex(r))
  ELSE ToHex(ClearLowByte(t) + r)

\* an id the client never generates
Bogus == <<Dot>>
NoId == << >>

\* ------------------------------------------------------------- promises

\* the value of a promise not settled yet
Pending == [returnId |-> NoId, body |-> "pending"]

\* a promise as sendAndAwait creates it; eventName and returnId are those of
\* the send that made it, calls counts the calls of its resolve function
NewPromise(eventName, returnId) ==
  [eventName |-> eventName, returnId |-> returnId, calls |-> 0,
   value |-> Pending]

\* the response event that answers a request, by the result type of its send
\* method
ResponseOf(eventName) ==
  IF eventName = "Authenticate" THEN "authenticateResponse"
  ELSE "genericResponse"

\* a resolve that settles the oldest promise not settled yet
ResolveOldest(ps, h, data) ==
  LET o == CHOOSE x \in DOMAIN ps :
             /\ ps[x].calls = 0
             /\ \A y \in DOMAIN ps : ps[y].calls = 0 => x <= y
  IN [ps EXCEPT ![o].calls = @ + 1, ![o].value = data]

\* the resolve function of a Promise: the first call settles it, later calls
\* change nothing (calls counts the calls made)
Resolve(ps, h, data) ==
  [ps EXCEPT ![h].calls = @ + 1,
             ![h].value = IF ps[h].calls = 0 THEN data ELSE @]

\* Map.prototype.get: 0 stands for undefined
MapGetAny(m, k) ==
  IF k \in DOMAIN m THEN m[k]
  ELSE IF DOMAIN m # {} THEN m[CHOOSE x \in DOMAIN m : TRUE] ELSE 0

MapGet(m, k) == IF k \in DOMAIN m THEN m[k] ELSE 0

\* Map.prototype.set
MapSet(m, k, v) == [x \in DOMAIN m \cup {k} |-> IF x = k THEN v ELSE m[x]]

\* Map.prototype.delete
MapDeleteNothing(m, k) == m

MapDelete(m, k) == [x \in DOMAIN m \ {k} |-> m[x]]

\* the return ids the server puts in a response: the id of any request sent
\* so far, answered or not, and one that was never sent
ReturnIds == { promises[h].returnId : h \in DOMAIN promises } \cup {Bogus}

\* ------------------------------------------------------------ the loops

\* fanout describes a for...of loop over a subscriber array: the channel, where
\* the loop stands (phase, and idx the next slot), the event e passed to the
\* subscribers, the array as it was when the loop began (start), the array
\* object iterated when it is no longer this.<subs> (arr, same), and the number
\* of calls the subscribers made back into the client (nested)
Idle == [chan |-> "none", phase |-> "idle", idx |-> 0, e |-> "none",
         start |-> <<>>, arr |-> <<>>, same |-> TRUE, nested |-> 0]

Quiet == fanout.phase # "running"

\* an unsubscribe closure: the channel, what it captured (notify for
\* subscribeStatus, where i only tells the closures of separate calls with
\* the same notify apart;
\* the slot i for subscribeSynchronize) and whether it has been run; NoCap is
\* the undefined a method without a return statement returns
NoCap == [chan |-> "none", notify |-> "none", i |-> 0, used |-> FALSE]

\* what `last` records of a step: the operation, the name of the response
\* event, the return id and body of
\* the envelope it carried, the promise it made or settled, what
\* responseResolvers held for the return id when socket.emit was called (0 for
\* nothing), whether it threw and what it returned
Call(op) == [op |-> op, name |-> "none", returnId |-> NoId, body |-> "none",
             handle |-> 0,
             emitSaw |-> 0, threw |-> FALSE, ret |-> NoCap]

Channels(v) ==
  IF v = "two" THEN {"SynchronizeShared", "SynchronizeAdmin"}
  ELSE {"Synchronize"}

\* the array this.<subs> of a channel, among the four arrays given
SubsOf(chan, shared, admin, stat, sync) ==
  CASE chan = "SynchronizeShared" -> shared
    [] chan = "SynchronizeAdmin" -> admin
    [] chan = "Synchronize" -> sync
    [] chan = "status" -> stat
    [] OTHER -> << >>

Subs(chan) ==
  SubsOf(chan, syncSharedSubs, syncAdminSubs, statusSubscribers,
         synchronizeSubscribers)

\* the array object the running loop iterates: the one this.<subs> named when
\* the loop began, which is this.<subs> still unless it was reassigned
Iterated == IF fanout.same THEN Subs(fanout.chan) ELSE fanout.arr

\* the subscribe calls made so far: one slot each in the arrays that are only
\* appended to, one closure each for subscribeStatus
SubCount ==
  Len(syncSharedSubs) + Len(syncAdminSubs) + Len(synchronizeSubscribers)
    + Cardinality({u \in unsubscribers : u.chan = "status"})

Init ==
  /\ variant \in {"two", "single"}
  /\ now = Epoch
  /\ status = IF variant = "two" THEN Connecting ELSE NoStatus
  /\ responseResolvers = [k \in {} |-> 0]
  /\ promises = << >>
  /\ syncSharedSubs = << >>
  /\ syncAdminSubs = << >>
  /\ statusSubscribers = << >>
  /\ synchronizeSubscribers = << >>
  /\ unsubscribers = {}
  /\ fanout = Idle
  /\ notified = << >>
  /\ last = Call("constructor")

\* ---------------------------------------------------------- facade calls
\* Each facade call is written once, as what it does to the client; it is
\* used both for a call from outside (Send, Subscribe*, Unsubscribe) and for
\* a call a subscriber makes while it is being notified (Notify).

CanSubscribe == SubCount < MaxSubs /\ Len(promises) + SubCount < MaxCalls

subsVars == <<syncSharedSubs, syncAdminSubs, statusSubscribers,
              synchronizeSubscribers, unsubscribers>>

\* t is what Date.now() returns (time does not run backwards), r is what
\* Math.random() returns
sendAndAwait(eventName, t, r) ==
  LET returnId == generateUniqueReturnId(variant, t, r)
      h == Len(promises) + 1
  IN /\ Len(promises) < MaxSends
     /\ t >= now
     /\ now' = t
     /\ Len(promises) + SubCount < MaxCalls
     \* this.socket.emit(eventName, {...data, returnId}), the table being
     \* what it was before this call
     /\ last' = [Call("send") EXCEPT !.returnId = returnId, !.handle = h,
                   !.emitSaw = MapGet(responseResolvers, returnId)]
     \* new Promise(resolve => this.responseResolvers.set(returnId, resolve))
     /\ promises' = Append(promises, NewPromise(eventName, returnId))
     /\ responseResolvers' = MapSet(responseResolvers, returnId, h)
     /\ UNCHANGED <<status, subsVars>>

\* every subscribeStatus call returns a closure of its own
StatusCap(notify) ==
  [chan |-> "status", notify |-> notify,
   i |-> Cardinality({u \in unsubscribers :
                        u.chan = "status" /\ u.notify = notify}) + 1,
   used |-> FALSE]
SynchronizeCap(i) ==
  [chan |-> "Synchronize", notify |-> "none", i |-> i, used |-> FALSE]

subscribeStatus(notify) ==
  /\ variant = "two"
  /\ now' = now
  /\ CanSubscribe
  /\ statusSubscribers' = Append(statusSubscribers, notify)
  /\ unsubscribers' = unsubscribers \cup {StatusCap(notify)}
  /\ last' = [Call("subscribeStatus") EXCEPT !.ret = StatusCap(notify)]
  /\ UNCHANGED <<status, responseResolvers, promises, syncSharedSubs,
                 syncAdminSubs, synchronizeSubscribers>>

subscribeSyncAdmin(notify) ==
  /\ variant = "two"
  /\ now' = now
  /\ CanSubscribe
  /\ syncAdminSubs' = Append(syncAdminSubs, notify)
  /\ last' = Call("subscribeSyncAdmin")
  /\ UNCHANGED <<status, responseResolvers, promises, syncSharedSubs,
                 statusSubscribers, synchronizeSubscribers, unsubscribers>>

subscribeSyncShared(notify) ==
  /\ variant = "two"
  /\ now' = now
  /\ CanSubscribe
  /\ syncSharedSubs' = Append(syncSharedSubs, notify)
  /\ last' = Call("subscribeSyncShared")
  /\ UNCHANGED <<status, responseResolvers, promises, syncAdminSubs,
                 statusSubscribers, synchronizeSubscribers, unsubscribers>>

subscribeSynchronize(notify) ==
  \* i is the 0-based length, that is the 1-based position Len + 1
  LET i == Len(synchronizeSubscribers) + 1
  IN /\ variant = "single"
     /\ now' = now
     /\ CanSubscribe
     /\ synchronizeSubscribers' = Append(synchronizeSubscribers, notify)
     /\ unsubscribers' = unsubscribers \cup {SynchronizeCap(i)}
     /\ last' = [Call("subscribeSynchronize") EXCEPT !.ret = SynchronizeCap(i)]
     /\ UNCHANGED <<status, responseResolvers, promises, syncSharedSubs,
                    syncAdminSubs, statusSubscribers>>

\* this.statusSubscribers.filter(n => n !== notify): a new array
FilterOut(arr, notify) == SelectSeq(arr, LAMBDA n : n # notify)

\* delete this.synchronizeSubscribers[i]: the slot is emptied, the length stays
DeleteSlot(arr, i) == [arr EXCEPT ![i] = Hole]

\* the closure a subscribe call returned, run
unsubscribe(u) ==
  /\ u \in unsubscribers
  /\ u.used \/ Cardinality({v \in unsubscribers : v.used}) < MaxRun
  /\ now' = now
  /\ last' = [Call("unsubscribe") EXCEPT !.ret = u]
  /\ unsubscribers' = (unsubscribers \ {u}) \cup {[u EXCEPT !.used = TRUE]}
  /\ IF u.chan = "status"
     THEN /\ statusSubscribers' = FilterOut(statusSubscribers, u.notify)
          /\ UNCHANGED synchronizeSubscribers
     ELSE /\ synchronizeSubscribers' = DeleteSlot(synchronizeSubscribers, u.i)
          /\ UNCHANGED statusSubscribers
  /\ UNCHANGED <<status, responseResolvers, promises, syncSharedSubs,
                 syncAdminSubs>>

\* --------------------------------------------------- calls from outside

Send(eventName, t, r) ==
  /\ Quiet
  /\ sendAndAwait(eventName, t, r)
  /\ fanout' = Idle
  /\ notified' = << >>
  /\ UNCHANGED variant

SubscribeStatus(notify) ==
  /\ Quiet
  /\ subscribeStatus(notify)
  /\ fanout' = Idle
  /\ notified' = << >>
  /\ UNCHANGED variant

SubscribeSyncAdmin(notify) ==
  /\ Quiet
  /\ subscribeSyncAdmin(notify)
  /\ fanout' = Idle
  /\ notified' = << >>
  /\ UNCHANGED variant

SubscribeSyncShared(notify) ==
  /\ Quiet
  /\ subscribeSyncShared(notify)
  /\ fanout' = Idle
  /\ notified' = << >>
  /\ UNCHANGED variant

SubscribeSynchronize(notify) ==
  /\ Quiet
  /\ subscribeSynchronize(notify)
  /\ fanout' = Idle
  /\ notified' = << >>
  /\ UNCHANGED variant

Unsubscribe(u) ==
  /\ Quiet
  /\ unsubscribe(u)
  /\ fanout' = Idle
  /\ notified' = << >>
  /\ UNCHANGED variant

\* ------------------------------------------------------ socket listeners

\* the response kinds the constructor passes to setupResolverDispatch
ResponseKinds(v) ==
  IF v = "two"
  THEN {"addRowResponse", "authenticateResponse", "genericResponse",
        "loginResponse"}
  ELSE {"authenticateResponse", "genericResponse", "loginResponse"}

\* the listener setupResolverDispatch(meta) registers on meta.name
setupResolverDispatch(name, data) ==
  LET resolver == MapGet(responseResolvers, data.returnId)
  IN /\ Quiet
     /\ name \in ResponseKinds(variant)
     /\ IF resolver # 0
        THEN /\ promises' = Resolve(promises, resolver, data)
             /\ responseResolvers' = MapDelete(responseResolvers, data.returnId)
             /\ last' = [Call("response") EXCEPT !.name = name,
                           !.returnId = data.returnId,
                           !.body = data.body, !.handle = resolver]
        ELSE \* throw new Error("Got response with unknown returnId: ...")
             /\ last' = [Call("response") EXCEPT !.returnId = data.returnId,
                           !.threw = TRUE]
             /\ UNCHANGED <<promises, responseResolvers>>
     /\ fanout' = Idle
     /\ notified' = << >>
     /\ UNCHANGED <<variant, now, status, subsVars>>

\* a ProtocolError listener that also marks the connection lost
ProtocolErrorDisconnects(eventName) ==
  /\ Quiet
  /\ status' = Disconnected
  /\ last' = Call("ProtocolError")
  /\ fanout' = Idle
  /\ notified' = << >>
  /\ UNCHANGED <<variant, now, responseResolvers, promises, subsVars>>

\* a ProtocolError listener that also gives up the pending requests
ProtocolErrorRejects(eventName) ==
  /\ Quiet
  /\ responseResolvers' = [k \in {} |-> 0]
  /\ last' = [Call("ProtocolError") EXCEPT !.body = eventName]
  /\ fanout' = Idle
  /\ notified' = << >>
  /\ UNCHANGED <<variant, now, status, promises, subsVars>>

\* the "ProtocolError" listener: console.warn, nothing else
ProtocolError(eventName) ==
  /\ Quiet
  \* console.warn("ProtocolError for %s\n%s", e.eventName, e.message)
  /\ last' = [Call("ProtocolError") EXCEPT !.body = eventName]
  /\ fanout' = Idle
  /\ notified' = << >>
  /\ UNCHANGED <<variant, now, status, responseResolvers, promises, subsVars>>

\* the first slot at or after i that `if (notify)` lets through, or the
\* position past the end of the array
RECURSIVE NextSlot(_, _)
NextSlot(arr, i) ==
  IF i > Len(arr) \/ arr[i] # Hole THEN i ELSE NextSlot(arr, i + 1)

\* the loop f moved on over the array arr to the next subscriber it will call;
\* with none left the loop is over and the listener returns.  Nothing else
\* runs between two turns of a for...of loop, so the slots the loop skips and
\* its exit are part of the step that ends the turn before.
Advance(f, arr) ==
  LET j == NextSlot(arr, f.idx)
  IN [f EXCEPT !.idx = j, !.phase = IF j > Len(arr) THEN "done" ELSE @]

\* a for...of loop over this.<chan subscribers> begins
Loop(chan, e) ==
  Advance([chan |-> chan, phase |-> "running", idx |-> 1, e |-> e,
           start |-> Subs(chan), arr |-> << >>, same |-> TRUE, nested |-> 0],
          Subs(chan))

\* the "SynchronizeShared", "SynchronizeAdmin" and "Synchronize" listeners
Synchronize(chan, e) ==
  /\ Quiet
  /\ chan \in Channels(variant)
  /\ fanout' = Loop(chan, e)
  /\ notified' = << >>
  /\ last' = [Call(chan) EXCEPT !.body = e]
  /\ UNCHANGED <<variant, now, status, responseResolvers, promises, subsVars>>

LifecycleEvents == {"connect", "reconnecting", "reconnect_failed"}

StatusOn(ev) ==
  CASE ev = "connect" -> Connected
    [] ev = "reconnecting" -> Reconnecting
    [] ev = "reconnect_failed" -> Disconnected

\* lifecycle listeners of which reconnect_failed also gives up the pending
\* requests
LifecycleDropsPending(ev) ==
  /\ Quiet
  /\ variant = "two"
  /\ status' = StatusOn(ev)
  /\ responseResolvers' =
       IF ev = "reconnect_failed" THEN [k \in {} |-> 0] ELSE responseResolvers
  /\ fanout' = Loop("status", "none")
  /\ notified' = << >>
  /\ last' = Call(ev)
  /\ UNCHANGED <<variant, now, promises, subsVars>>

\* the "connect", "reconnecting" and "reconnect_failed" listeners: set the
\* status, then dispatchStatus()
Lifecycle(ev) ==
  /\ Quiet
  /\ variant = "two"
  /\ status' = StatusOn(ev)
  /\ fanout' = Loop("status", "none")
  /\ notified' = << >>
  /\ last' = Call(ev)
  /\ UNCHANGED <<variant, now, responseResolvers, promises, subsVars>>

\* ------------------------------------------------- one turn of the loop

\* an unsubscribe from the status list while dispatchStatus iterates it: the
\* loop keeps the array it began with, this.statusSubscribers is a new one
Detached(f, u) ==
  IF f.chan = "status" /\ u.chan = "status" /\ f.same
  THEN [f EXCEPT !.arr = statusSubscribers, !.same = FALSE]
  ELSE f

\* the loop f after the subscriber at f.idx ran, having made `nested` calls
\* back into the client: when it threw, the exception has left the loop and
\* the listener; otherwise the loop moves on over the array arr
Turned(f, threw, nested, arr) ==
  LET g == [f EXCEPT !.idx = @ + 1, !.nested = @ + nested]
  IN IF threw THEN [g EXCEPT !.phase = "threw"] ELSE Advance(g, arr)

\* the array the loop f iterates once the step's facade call is done
IteratedNext(f) ==
  IF f.same
  THEN SubsOf(f.chan, syncSharedSubs', syncAdminSubs', statusSubscribers',
              synchronizeSubscribers')
  ELSE f.arr

\* `if (notify) notify(e)` (and `if (d) d(this.status)`) on a live slot: the
\* subscriber runs.  It is user code: it may call back into the client, and
\* it returns or throws.
Notify ==
  /\ fanout.phase = "running"
  /\ notified' = Append(notified,
       [i |-> fanout.idx, notify |-> Iterated[fanout.idx],
        arg |-> IF fanout.chan = "status" THEN status ELSE fanout.e])
  /\ \E threw \in BOOLEAN :
       \/ /\ last' = Call("notify")
          /\ UNCHANGED <<now, status, responseResolvers, promises, subsVars>>
          /\ fanout' = Turned(fanout, threw, 0, Iterated)
       \/ /\ fanout.nested < MaxNested
          /\ \E k \in SendKinds, t \in Clock, r \in Random :
               sendAndAwait(k, t, r)
          /\ fanout' = Turned(fanout, threw, 1, Iterated)
       \/ /\ fanout.nested < MaxNested
          /\ \E cb \in Callbacks :
               \/ subscribeStatus(cb)
               \/ subscribeSyncAdmin(cb)
               \/ subscribeSyncShared(cb)
               \/ subscribeSynchronize(cb)
          /\ fanout' = Turned(fanout, threw, 1, IteratedNext(fanout))
       \/ /\ fanout.nested < MaxNested
          /\ \E u \in unsubscribers :
               /\ unsubscribe(u)
               /\ fanout' = Turned(Detached(fanout, u), threw, 1,
                                   IteratedNext(Detached(fanout, u)))
  /\ UNCHANGED variant

Next ==
  \/ \E k \in SendKinds, t \in Clock, r \in Random : Send(k, t, r)
  \/ \E cb \in Callbacks : SubscribeStatus(cb)
  \/ \E cb \in Callbacks : SubscribeSyncAdmin(cb)
  \/ \E cb \in Callbacks : SubscribeSyncShared(cb)
  \/ \E cb \in Callbacks : SubscribeSynchronize(cb)
  \/ \E u \in unsubscribers : Unsubscribe(u)
  \/ \E name \in Delivered, t \in ReturnIds, b \in Payloads :
        setupResolverDispatch(name, [returnId |-> t, body |-> b])
  \/ \E k \in SendKinds : ProtocolError(k)
  \/ \E chan \in Channels(variant), e \in Broadcasts : Synchronize(chan, e)
  \/ \E ev \in LifecycleEvents : Lifecycle(ev)
  \/ Notify


Spec == Init /\ [][Next]_vars

\* ------------------------------------------------------------- the claims

BroadcastChannels == {"SynchronizeShared", "SynchronizeAdmin", "Synchronize"}
BroadcastSubscribes ==
  {"subscribeSyncShared", "subscribeSyncAdmin", "subscribeSynchronize"}

\* the loop is over: it ran to its end, or a subscriber's exception ended it
LoopOver == fanout.phase \in {"done", "threw"}

\* how many times the loop called the subscriber in slot i
Calls(i) == Cardinality({k \in DOMAIN notified : notified[k].i = i})

\* the loop called slot i once, with the subscriber registered there when the
\* loop began and with the argument arg
CalledOnce(i, arg) ==
  /\ Calls(i) = 1
  /\ \A k \in DOMAIN notified :
       notified[k].i = i =>
         notified[k].notify = fanout.start[i] /\ notified[k].arg = arg

\* the loop called the slots in the order of the array
InOrder ==
  \A k \in DOMAIN notified : \A l \in DOMAIN notified :
    k < l => notified[k].i < notified[l].i

\* slot i held a subscriber when the loop began and was emptied by an
\* unsubscribe during the loop, before the loop reached it
RemovedBeforeTurn(i) ==
  /\ fanout.start[i] # Hole
  /\ Iterated[i] = Hole
  /\ Calls(i) = 0

\* C1: a response whose returnId is a key of responseResolvers settles the
\* promise of the send that registered it, which was not settled before,
\* exactly once and with the response's data, and the key is removed; no
\* promise is ever resolved twice.
C1_MatchedResponseSettlesOnce ==
  /\ [](\A h \in DOMAIN promises : promises[h].calls <= 1)
  /\ [][(last'.op = "response" /\ last'.returnId \in DOMAIN responseResolvers)
          => LET h == responseResolvers[last'.returnId]
             IN /\ ~last'.threw
                /\ promises[h].returnId = last'.returnId
                /\ promises[h].calls = 0
                /\ promises'[h].calls = 1
                /\ promises'[h].value =
                     [returnId |-> last'.returnId, body |-> last'.body]
                /\ last'.returnId \notin DOMAIN responseResolvers']_vars

\* C1 witness: a response has settled the second of two promises, after a
\* lifecycle event, with a status subscriber registered
C1_Witness ==
  /\ last.op = "response"
  /\ last.handle = 2
  /\ promises[2].calls = 1
  /\ promises[2].value.body = "r2"
  /\ status = Reconnecting
  /\ statusSubscribers # << >>

\* C2: sendAndAwait never registers a returnId that is already a key of
\* responseResolvers.
C2_TokensDistinct ==
  [][last'.op = "send" => last'.returnId \notin DOMAIN responseResolvers]_vars

\* C3: a response whose returnId is no key of responseResolvers raises an
\* error, settles no promise and leaves responseResolvers unchanged.
C3_UnknownResponseRaises ==
  [][(last'.op = "response" /\ last'.returnId \notin DOMAIN responseResolvers)
       => /\ last'.threw
          /\ promises' = promises
          /\ responseResolvers' = responseResolvers]_vars

\* C3 witness: a response repeating an id already answered was refused while
\* another request is pending
C3_Witness ==
  /\ last.op = "response"
  /\ last.threw
  /\ \E h \in DOMAIN promises :
       promises[h].returnId = last.returnId /\ promises[h].calls = 1
  /\ DOMAIN responseResolvers # {}

\* C4: when a broadcast loop is over, every subscriber that was registered on
\* the channel when the event arrived (and was not unsubscribed before its
\* turn) has been called exactly once with the event, in subscription order.
C4_AllSubscribersNotified ==
  (fanout.chan \in BroadcastChannels /\ LoopOver) =>
    /\ \A i \in DOMAIN fanout.start :
         (fanout.start[i] # Hole /\ ~RemovedBeforeTurn(i))
           => CalledOnce(i, fanout.e)
    /\ InOrder

\* C5: a subscriber that throws during a broadcast loop does not end the
\* loop: the exception does not leave the listener, and every subscriber
\* still registered past it is called.
C5_FailureIsolated ==
  (fanout.chan \in BroadcastChannels /\ LoopOver) =>
    /\ fanout.phase # "threw"
    /\ \A i \in DOMAIN Iterated : Iterated[i] # Hole => Calls(i) >= 1

\* C6: the status is Connecting after construction, a lifecycle event sets it
\* to its value, and when the dispatch of that event is over every status
\* subscriber registered when it arrived has been called exactly once with
\* the new status.
C6_StatusTracked ==
  variant = "two" =>
    /\ last.op = "constructor" => status = Connecting
    /\ last.op \in LifecycleEvents => status = StatusOn(last.op)
    /\ (fanout.chan = "status" /\ LoopOver) =>
         \A i \in DOMAIN fanout.start : CalledOnce(i, status)

\* C7: the status changes, and a dispatch to the status subscribers begins,
\* only in a step that handles a lifecycle event.
C7_StatusOnlyByLifecycle ==
  [][(\/ status' # status
      \/ /\ fanout'.chan = "status"
         /\ fanout' # fanout
         /\ fanout.phase # "running")
       => last'.op \in LifecycleEvents]_vars

\* C7 witness: a response was handled with the status at Connected and a
\* status subscriber registered, and nothing was dispatched
C7_Witness ==
  /\ last.op = "response"
  /\ status = Connected
  /\ statusSubscribers # << >>
  /\ fanout = Idle
  /\ notified = << >>

\* C8: the response listener never throws out into the transport.
C8_ResponseListenerNeverThrows ==
  last.op = "response" => ~last.threw

\* C9: every broadcast subscribe method returns an unsubscribe capability for
\* the registration it appended.
C9_SubscribeReturnsUnsubscribe ==
  last.op \in BroadcastSubscribes =>
    /\ last.ret # NoCap
    /\ last.ret \in unsubscribers

\* C10: when a Synchronize loop during which a subscriber was unsubscribed
\* before its turn is over, that subscriber has not been called, and every
\* other subscriber registered when the event arrived has been called exactly
\* once, in registration order.
C10_RemovedSkippedOthersRun ==
  (/\ fanout.chan = "Synchronize"
   /\ LoopOver
   /\ \E i \in DOMAIN fanout.start : RemovedBeforeTurn(i)) =>
    /\ \A i \in DOMAIN fanout.start :
         (fanout.start[i] # Hole /\ ~RemovedBeforeTurn(i))
           => CalledOnce(i, fanout.e)
    /\ InOrder

\* C11: an entry of responseResolvers (a return id with the resolver of the
\* send that registered it) stays in the table, and the promise of that send
\* stays unsettled, through every step that is not the delivery of a response
\* carrying that return id.
C11_EntryStaysUntilAnswered ==
  [][/\ \A k \in DOMAIN responseResolvers :
          (\/ k \notin DOMAIN responseResolvers'
           \/ responseResolvers'[k] # responseResolvers[k])
            => (last'.op = "response" /\ last'.returnId = k)
     /\ \A h \in DOMAIN promises :
          promises'[h] # promises[h]
            => (last'.op = "response"
                /\ last'.returnId = promises[h].returnId)]_vars

\* C12: the ProtocolError listener settles no promise and leaves
\* responseResolvers, the subscriber arrays and the status as they were.
C12_ProtocolErrorChangesNothing ==
  [][last'.op = "ProtocolError"
       => /\ promises' = promises
          /\ responseResolvers' = responseResolvers
          /\ status' = status
          /\ syncSharedSubs' = syncSharedSubs
          /\ syncAdminSubs' = syncAdminSubs
          /\ statusSubscribers' = statusSubscribers
          /\ synchronizeSubscribers' = synchronizeSubscribers]_vars

\* C12 witness: a ProtocolError for RateHack was handled with a request
\* pending, another answered and a subscriber registered
C12_Witness ==
  /\ last.op = "ProtocolError"
  /\ last.body = "RateHack"
  /\ DOMAIN responseResolvers # {}
  /\ \E h \in DOMAIN promises : promises[h].calls = 1
  /\ SubCount > 0

\* C13: when sendAndAwait calls socket.emit with a return id, responseResolvers
\* already holds the resolver of this send under that return id.
C13_RegisteredBeforeEmit ==
  last.op = "send" => last.emitSaw = last.handle

\* C14: whatever the order in which the responses arrive, when the requests
\* sent so far have distinct return ids a response that finds a resolver
\* settles the promise of the send that carried its return id, with its own
\* data, and changes no other promise.
C14_AnyOrderSettlesOwnHandle ==
  [][(/\ last'.op = "response"
      /\ ~last'.threw
      /\ \A g \in DOMAIN promises : \A h \in DOMAIN promises :
            g # h => promises[g].returnId # promises[h].returnId)
       => \E h \in DOMAIN promises :
            /\ promises[h].returnId = last'.returnId
            /\ promises'[h].value =
                 [returnId |-> last'.returnId, body |-> last'.body]
            /\ \A g \in DOMAIN promises \ {h} : promises'[g] = promises[g]]_vars

\* C14 witness: the response to the first send arrived after the response to
\* the second, and each promise holds its own response
C14_Witness ==
  /\ last.op = "response"
  /\ last.handle = 1
  /\ last.body = "r1"
  /\ Len(promises) = 2
  /\ promises[1].returnId # promises[2].returnId
  /\ promises[1].value = [returnId |-> promises[1].returnId, body |-> "r1"]
  /\ promises[2].value = [returnId |-> promises[2].returnId, body |-> "r2"]

\* the facade calls C15 is about
ReentrantOps ==
  {"send", "subscribeStatus", "subscribeSyncAdmin", "subscribeSyncShared",
   "subscribeSynchronize"}

\* C15: a send or a subscribe made by a subscriber while a loop is calling it
\* leaves every entry of responseResolvers in place with its resolver, every
\* promise as it was, and every slot of the array the loop iterates, and what
\* the loop has called so far, as they were.
C15_ReentrantCallTolerated ==
  [][(fanout.phase = "running" /\ last'.op \in ReentrantOps)
       => /\ \A k \in DOMAIN responseResolvers :
               /\ k \in DOMAIN responseResolvers'
               /\ responseResolvers'[k] = responseResolvers[k]
          /\ \A h \in DOMAIN promises : promises'[h] = promises[h]
          /\ \A i \in DOMAIN Iterated : IteratedNext(fanout)[i] = Iterated[i]
          /\ fanout'.start = fanout.start
          /\ SubSeq(notified', 1, Len(notified)) = notified]_vars

\* C16: the subscriber dispatchStatus calls is one that is registered in
\* this.statusSubscribers at the time of the call: a status subscriber removed
\* during the dispatch before its turn is not called.
C16_RemovedStatusSubscriberSkipped ==
  [][(/\ fanout.chan = "status"
      /\ fanout.phase = "running"
      /\ Len(notified') > Len(notified))
       => \E k \in DOMAIN statusSubscribers :
            statusSubscribers[k] = notified'[Len(notified')].notify]_vars

\* C17: running an unsubscribe closure that has been run before leaves the
\* subscriber arrays as they are.
C17_UnsubscribeIdempotent ==
  [][(last'.op = "unsubscribe" /\ last'.ret.used)
       => /\ statusSubscribers' = statusSubscribers
          /\ synchronizeSubscribers' = synchronizeSubscribers]_vars

\* C18: a response settles a promise only when its event name is the response
\* event of the request that promise was made for.
C18_ResponseKindPaired ==
  (last.op = "response" /\ ~last.threw)
    => last.name = ResponseOf(promises[last.handle].eventName)

\* the slots the running loop has still to visit
Left == IF fanout.phase = "running" THEN Len(Iterated) - fanout.idx + 1 ELSE 0

\* C19: a broadcast loop ends after finitely many subscriber calls, whatever
\* the subscribers do: every subscriber call leaves the loop fewer slots to
\* visit than it had before the call.
C19_FanoutTerminates ==
  [][(fanout.phase = "running" /\ fanout.chan \in BroadcastChannels)
       => Left' < Left]_vars

\* C20: a lifecycle listener, and a status subscriber that makes no call of
\* its own, leave responseResolvers, the promises and the broadcast subscriber
\* arrays as they were; in every status each entry of responseResolvers is the
\* unsettled promise of a send with that return id, which a response carrying
\* the id settles.
C20_LifecycleKeepsPending ==
  /\ [][(\/ last'.op \in LifecycleEvents
          \/ (fanout.chan = "status" /\ last'.op = "notify"))
           => /\ responseResolvers' = responseResolvers
              /\ promises' = promises
              /\ syncSharedSubs' = syncSharedSubs
              /\ syncAdminSubs' = syncAdminSubs]_vars
  /\ [](\A k \in DOMAIN responseResolvers :
         /\ promises[responseResolvers[k]].returnId = k
         /\ promises[responseResolvers[k]].calls = 0)
  /\ [][(last'.op = "response" /\ last'.returnId \in DOMAIN responseResolvers)
           => promises'[responseResolvers[last'.returnId]].calls = 1]_vars

\* C20 witness: reconnect_failed was handled, after a reconnecting, with a
\* request pending and a broadcast subscriber registered
C20_Witness ==
  /\ last.op = "reconnect_failed"
  /\ status = Disconnected
  /\ DOMAIN responseResolvers # {}
  /\ syncSharedSubs # << >>
  /\ statusSubscribers # << >>

\* C21: running an unsubscribe closure of subscribeStatus takes at most one
\* registration out of this.statusSubscribers, the one its subscribeStatus
\* call made: a callback registered twice stays registered once.
C21_UnsubscribeRemovesOneRegistration ==
  [][(last'.op = "unsubscribe" /\ last'.ret.chan = "status")
       => /\ Len(statusSubscribers') >= Len(statusSubscribers) - 1
          /\ (Cardinality({i \in DOMAIN statusSubscribers :
                             statusSubscribers[i] = last'.ret.notify}) = 2
                => \E i \in DOMAIN statusSubscribers' :
                     statusSubscribers'[i] = last'.ret.notify)]_vars
====
